---- MODULE Spec2Model ----
(***************************************************************************)
(* A model of src/jwt.js: the token codec (parse), the verification engine *)
(* (verify), the issuance engine (create), the key importers and the       *)
(* expiry-fraction utility.                                                *)
(*                                                                         *)
(* Text is a sequence of character codes (all text of the model is ASCII,  *)
(* so the UTF-8 bytes of a text are its character codes).  A JSON value is *)
(* a record [t, s, n]: t = "s" a string s, t = "n" a number n, t = "u"     *)
(* undefined.  A JSON object is the sequence of its members in insertion   *)
(* order.  A CryptoKey handle is the number of the key pair it belongs to; *)
(* 0 is the falsy value of a missing handle.  Dates are milliseconds since *)
(* the epoch, as Date.getTime() returns them.                              *)
(***************************************************************************)
EXTENDS Integers, Sequences, FiniteSets, TLC

VARIABLES held, pc, call, ret, platform

vars == <<held, pc, call, ret, platform>>

---------------------------------------------------------------------------
(* Bounds of the model.                                                    *)

\* Largest epoch second a claim (iat, exp) takes.
MaxTime == 1
\* Seconds before the epoch that claims and clocks reach (Date allows them).
PreEpoch == 1
\* Number of distinct key pairs.
NumKeyPairs == 2
\* Longest key list handed to create and verify.
MaxKeys == 2
\* Longest JWK Set handed to importJWKS.
MaxEntries == 3

---------------------------------------------------------------------------
(* Text.                                                                   *)

\* "." : the separator of split and of the token template (jwt.js 31, 199).
Dot == 46

str_kid == <<107, 105, 100>>
str_alg == <<97, 108, 103>>
str_sub == <<115, 117, 98>>
str_iat == <<105, 97, 116>>
str_exp == <<101, 120, 112>>
ES256 == <<69, 83, 50, 53, 54>>
RS256 == <<82, 83, 50, 53, 54>>
\* An identifier the registry does not hold.
HS256 == <<72, 83, 50, 53, 54>>

\* The element of a one-element set: The({f(x) : x \in {e}}) is f(e) with e
\* evaluated once.
The(S) == CHOOSE x \in S : TRUE

MinOf(S) == CHOOSE i \in S : \A j \in S : i <= j
MaxOf(S) == CHOOSE i \in S : \A j \in S : i >= j

IsSpace(c) == c \in {9, 10, 13, 32}

\* String.prototype.trim
trim(t) ==
    LET idx == {i \in 1..Len(t) : ~IsSpace(t[i])}
    IN  IF idx = {} THEN <<>> ELSE SubSeq(t, MinOf(idx), MaxOf(idx))

\* String.prototype.split(sep) for a one-character separator
RECURSIVE split(_, _)
split(t, sep) ==
    LET at == {i \in 1..Len(t) : t[i] = sep}
    IN  IF at = {} THEN <<t>>
        ELSE <<SubSeq(t, 1, MinOf(at) - 1)>>
             \o split(SubSeq(t, MinOf(at) + 1, Len(t)), sep)

---------------------------------------------------------------------------
(* base64url without padding (@dwbinns/base/64url).                        *)

b64char(v) ==
    IF v < 26 THEN 65 + v
    ELSE IF v < 52 THEN 97 + (v - 26)
    ELSE IF v < 62 THEN 48 + (v - 52)
    ELSE IF v = 62 THEN 45 ELSE 95

b64value(c) ==
    IF c >= 65 /\ c <= 90 THEN c - 65
    ELSE IF c >= 97 /\ c <= 122 THEN c - 97 + 26
    ELSE IF c >= 48 /\ c <= 57 THEN c - 48 + 52
    ELSE IF c = 45 THEN 62
    ELSE IF c = 95 THEN 63 ELSE 0 - 1

\* b64url.encode(bytes)
RECURSIVE encode(_)
encode(b) ==
    IF Len(b) = 0 THEN <<>>
    ELSE IF Len(b) = 1 THEN
        <<b64char(b[1] \div 4), b64char((b[1] % 4) * 16)>>
    ELSE IF Len(b) = 2 THEN
        <<b64char(b[1] \div 4), b64char((b[1] % 4) * 16 + b[2] \div 16),
          b64char((b[2] % 16) * 4)>>
    ELSE
        <<b64char(b[1] \div 4), b64char((b[1] % 4) * 16 + b[2] \div 16),
          b64char((b[2] % 16) * 4 + b[3] \div 64), b64char(b[3] % 64)>>
        \o encode(SubSeq(b, 4, Len(b)))

RECURSIVE sextetsToBytes(_)
sextetsToBytes(v) ==
    IF Len(v) < 2 THEN <<>>
    ELSE IF Len(v) = 2 THEN <<v[1] * 4 + v[2] \div 16>>
    ELSE IF Len(v) = 3 THEN
        <<v[1] * 4 + v[2] \div 16, (v[2] % 16) * 16 + v[3] \div 4>>
    ELSE
        <<v[1] * 4 + v[2] \div 16, (v[2] % 16) * 16 + v[3] \div 4,
          (v[3] % 4) * 64 + v[4]>>
        \o sextetsToBytes(SubSeq(v, 5, Len(v)))

\* b64url.decode(string): [ok, bytes]; not ok is a thrown decoding error
decode(s) ==
    IF (\E i \in 1..Len(s) : b64value(s[i]) < 0) \/ Len(s) % 4 = 1
    THEN [ok |-> FALSE, bytes |-> <<>>]
    ELSE [ok |-> TRUE,
          bytes |-> sextetsToBytes([i \in 1..Len(s) |-> b64value(s[i])])]

\* b64url.encodeText(text): the UTF-8 bytes of an ASCII text are its codes
encodeText(text) == encode(text)

\* b64url.decodeText(string): [ok, bytes as text]
decodeText(s) == decode(s)

---------------------------------------------------------------------------
(* JSON.                                                                   *)

undefined == [t |-> "u", s |-> <<>>, n |-> 0]
String(s) == [t |-> "s", s |-> s, n |-> 0]
Number(n) == [t |-> "n", s |-> <<>>, n |-> n]

\* obj.name : the value of the last member of that name, or undefined
Get(obj, name) ==
    LET at == {i \in 1..Len(obj) : obj[i].name = name}
    IN  IF at = {} THEN undefined ELSE obj[MaxOf(at)].value

\* The truthiness of a value: undefined, 0 and "" are falsy
Truthy(v) == (v.t = "n" /\ v.n # 0) \/ (v.t = "s" /\ v.s # <<>>)

RECURSIVE Digits(_)
Digits(n) == IF n < 10 THEN <<48 + n>> ELSE Digits(n \div 10) \o <<48 + (n % 10)>>

ValueText(v) ==
    IF v.t = "s" THEN <<34>> \o v.s \o <<34>>
    ELSE IF v.n < 0 THEN <<45>> \o Digits(0 - v.n) ELSE Digits(v.n)

RECURSIVE MembersText(_)
MembersText(obj) ==
    IF Len(obj) = 0 THEN <<>>
    ELSE IF Head(obj).value.t = "u" THEN MembersText(Tail(obj))
    ELSE LET rest == MembersText(Tail(obj))
         IN  <<34>> \o Head(obj).name \o <<34, 58>> \o ValueText(Head(obj).value)
             \o (IF rest = <<>> THEN <<>> ELSE <<44>> \o rest)

\* JSON.stringify(obj): members in insertion order, undefined ones left out
stringify(obj) == <<123>> \o MembersText(obj) \o <<125>>

IsDigit(c) == c >= 48 /\ c <= 57

RECURSIVE DigitsValue(_)
DigitsValue(d) ==
    IF Len(d) = 0 THEN 0
    ELSE 10 * DigitsValue(SubSeq(d, 1, Len(d) - 1)) + (d[Len(d)] - 48)

SyntaxError == [ok |-> FALSE, obj |-> <<>>]

\* The members of an object text from position i on; acc holds those read.
RECURSIVE ParseMembers(_, _, _)
ParseMembers(t, i, acc) ==
    LET quotes == {j \in (i + 1)..Len(t) : t[j] = 34}
    IN
    IF i > Len(t) \/ t[i] # 34 \/ quotes = {} THEN SyntaxError
    ELSE
    LET j == MinOf(quotes)
        k == j + 2
    IN
    IF k > Len(t) \/ t[j + 1] # 58 THEN SyntaxError
    ELSE
    LET isString == t[k] = 34
        closing == {m \in (k + 1)..Len(t) : t[m] = 34}
        from == IF t[k] = 45 THEN k + 1 ELSE k
        stops == {m \in from..Len(t) : ~IsDigit(t[m])}
        to == IF stops = {} THEN Len(t) ELSE MinOf(stops) - 1
        digits == SubSeq(t, from, to)
        badValue ==
            IF isString THEN closing = {}
            ELSE digits = <<>> \/ (Len(digits) > 1 /\ digits[1] = 48)
    IN
    IF badValue THEN SyntaxError
    ELSE
    LET value ==
            IF isString THEN String(SubSeq(t, k + 1, MinOf(closing) - 1))
            ELSE Number(IF t[k] = 45 THEN 0 - DigitsValue(digits)
                        ELSE DigitsValue(digits))
        next == IF isString THEN MinOf(closing) + 1 ELSE to + 1
        read == Append(acc, [name |-> SubSeq(t, i + 1, j - 1), value |-> value])
    IN
    IF next > Len(t) THEN SyntaxError
    ELSE IF t[next] = 44 THEN ParseMembers(t, next + 1, read)
    ELSE IF t[next] = 125 /\ next = Len(t) THEN [ok |-> TRUE, obj |-> read]
    ELSE SyntaxError

\* JSON.parse(text) of an object of string and integer members: [ok, obj]
JSONparse(t) ==
    IF Len(t) < 2 \/ t[1] # 123 THEN SyntaxError
    ELSE IF t = <<123, 125>> THEN [ok |-> TRUE, obj |-> <<>>]
    ELSE ParseMembers(t, 2, <<>>)

---------------------------------------------------------------------------
(* The platform: WebCrypto (crypto.subtle), URL.                           *)

\* Thrown errors: the messages of jwt.js, and the platform's own errors.
TypeError == "TypeError"
DecodeError == "b64url decode error"
JSONSyntaxError == "SyntaxError"
DataError == "DataError"

RECURSIVE Sum(_)
Sum(b) == IF Len(b) = 0 THEN 0 ELSE Head(b) + Sum(Tail(b))

\* The signature a key pair makes of data under the given parameters:
\* a function of the three, different for different pairs.
SignatureOf(signatureParams, pair, data) ==
    <<Len(signatureParams.name), pair, Sum(data) % 256>>

\* crypto.subtle.sign(signatureParams, privateKey, data): [ok, error, bytes]
subtle_sign(signatureParams, privateKey, data) ==
    IF privateKey = 0
    THEN [ok |-> FALSE, error |-> TypeError, bytes |-> <<>>]
    ELSE [ok |-> TRUE, error |-> "",
          bytes |-> SignatureOf(signatureParams, privateKey, data)]

\* crypto.subtle.verify(signatureParams, publicKey, signature, data)
subtle_verify(signatureParams, publicKey, signature, data) ==
    signature = SignatureOf(signatureParams, publicKey, data)

\* crypto.subtle.importKey("jwk", jwk, params, true, [usage]): the handle of
\* the JWK's key pair; a JWK holding the private parameter d is no public key.
subtle_importKey(jwk, usage) ==
    IF usage = "verify" /\ jwk.d
    THEN [ok |-> FALSE, error |-> DataError, handle |-> 0]
    ELSE IF usage = "sign" /\ ~jwk.d
    THEN [ok |-> FALSE, error |-> DataError, handle |-> 0]
    ELSE [ok |-> TRUE, error |-> "", handle |-> jwk.key]

\* new URL(text) of an absolute URL text scheme://host/path
URL(text) ==
    LET colon == MinOf({i \in 1..Len(text) : text[i] = 58})
        rest == SubSeq(text, colon + 3, Len(text))
        slashes == {i \in 1..Len(rest) : rest[i] = 47}
        hostEnd == IF slashes = {} THEN Len(rest) ELSE MinOf(slashes) - 1
    IN  [protocol |-> SubSeq(text, 1, colon),
         host |-> SubSeq(rest, 1, hostEnd),
         pathname |-> IF slashes = {} THEN <<47>>
                      ELSE SubSeq(rest, hostEnd + 1, Len(rest)),
         href |-> text]

---------------------------------------------------------------------------
(* jwt.js                                                                  *)

\* const algorithms
algorithms ==
    [alg \in {RS256, ES256} |->
        IF alg = RS256
        THEN [importKeyParams |->
                  [name |-> "RSASSA-PKCS1-v1_5", hash |-> "SHA-256", namedCurve |-> ""],
              signatureParams |-> [name |-> "RSASSA-PKCS1-v1_5", hash |-> ""]]
        ELSE [importKeyParams |->
                  [name |-> "ECDSA", hash |-> "", namedCurve |-> "P-256"],
              signatureParams |-> [name |-> "ECDSA", hash |-> "SHA-256"]]]

UnknownAlgorithm == "Unknown algorithm"
InvalidSignature == "JWT not valid"
Expired == "JWT expired"
NotYetValid == "JWT not yet valid"
KeyNotFound == "Key not known"
NoSigningKey == "No private key supplied"
FetchFailed == "JWKS fetch failed"
MissingTimeReference == "No creation time or issued time available"

\* function getParameters(alg): [ok, error, parameters]
getParameters(alg) ==
    IF alg \in DOMAIN algorithms
    THEN [ok |-> TRUE, error |-> "", parameters |-> algorithms[alg]]
    ELSE [ok |-> FALSE, error |-> UnknownAlgorithm, parameters |-> algorithms[ES256]]

\* `${headerEncoded}.${claimsEncoded}` of parse
signed(headerEncoded, claimsEncoded) == headerEncoded \o <<Dot>> \o claimsEncoded

NoParse ==
    [ok |-> FALSE, error |-> "", header |-> <<>>, claims |-> <<>>,
     signature |-> <<>>, signed |-> <<>>]

\* export function parse(text): [ok, error, header, claims, signature, signed].
\* A segment the destructuring leaves undefined makes the decoder throw.
parse(text) ==
    LET parts == split(trim(text), Dot)
        headerEncoded == parts[1]
        headerText == decodeText(headerEncoded)
        header == JSONparse(headerText.bytes)
    IN
    IF ~headerText.ok THEN [NoParse EXCEPT !.error = DecodeError]
    ELSE IF ~header.ok THEN [NoParse EXCEPT !.error = JSONSyntaxError]
    ELSE IF Len(parts) < 2 THEN [NoParse EXCEPT !.error = TypeError]
    ELSE
    LET claimsEncoded == parts[2]
        claimsText == decodeText(claimsEncoded)
        claims == JSONparse(claimsText.bytes)
    IN
    IF ~claimsText.ok THEN [NoParse EXCEPT !.error = DecodeError]
    ELSE IF ~claims.ok THEN [NoParse EXCEPT !.error = JSONSyntaxError]
    ELSE IF Len(parts) < 3 THEN [NoParse EXCEPT !.error = TypeError]
    ELSE
    LET signature == decode(parts[3])
    IN
    IF ~signature.ok THEN [NoParse EXCEPT !.error = DecodeError]
    ELSE [ok |-> TRUE, error |-> "", header |-> header.obj, claims |-> claims.obj,
          signature |-> signature.bytes,
          signed |-> signed(headerEncoded, claimsEncoded)]

\* A key record as the importers build it, and the null importJWKS returns.
KeyRecord(alg, kid, privateKey, publicKey) ==
    [null |-> FALSE, alg |-> alg, kid |-> kid,
     privateKey |-> privateKey, publicKey |-> publicKey]

null == [null |-> TRUE, alg |-> <<>>, kid |-> <<>>, privateKey |-> 0, publicKey |-> 0]

\* 1e3: the milliseconds of a second
MsPerSecond == 1000

\* value < now.getTime() / 1e3, for a number value
LessThanEpochSeconds(v, now) == v.t = "n" /\ v.n * MsPerSecond < now

\* value > now.getTime() / 1e3, for a number value
GreaterThanEpochSeconds(v, now) == v.t = "n" /\ v.n * MsPerSecond > now

NoVerify == [ok |-> FALSE, error |-> "", claims |-> <<>>, examined |-> 0, log |-> <<>>]

\* afterCheck with the dates of the claims tested before the signature.
afterCheck_m(valid, claims, now) ==
    IF Truthy(Get(claims, str_exp))
       /\ LessThanEpochSeconds(Get(claims, str_exp), now)
    THEN [NoVerify EXCEPT !.error = Expired]
    ELSE IF Truthy(Get(claims, str_iat))
            /\ GreaterThanEpochSeconds(Get(claims, str_iat), now)
    THEN [NoVerify EXCEPT !.error = NotYetValid]
    ELSE IF ~valid THEN [NoVerify EXCEPT !.error = InvalidSignature]
    ELSE [NoVerify EXCEPT !.ok = TRUE, !.claims = claims]

\* verify, after the cryptographic check of a matching candidate
afterCheck(valid, claims, now) ==
    IF ~valid THEN [NoVerify EXCEPT !.error = InvalidSignature]
    ELSE IF Truthy(Get(claims, str_exp))
            /\ LessThanEpochSeconds(Get(claims, str_exp), now)
    THEN [NoVerify EXCEPT !.error = Expired]
    ELSE IF Truthy(Get(claims, str_iat))
            /\ GreaterThanEpochSeconds(Get(claims, str_iat), now)
    THEN [NoVerify EXCEPT !.error = NotYetValid]
    ELSE [NoVerify EXCEPT !.ok = TRUE, !.claims = claims]

\* header.kid != kid || header.alg != alg
differs(header, kid, alg) ==
    \/ Get(header, str_kid) # String(kid)
    \/ Get(header, str_alg) # String(alg)

\* verify: the loop over the candidates from the i-th on
RECURSIVE scan(_, _, _, _)
scan(list, i, p, now) ==
    IF i > Len(list) THEN [NoVerify EXCEPT !.error = KeyNotFound, !.examined = i - 1]
    ELSE IF list[i].null THEN [NoVerify EXCEPT !.error = TypeError, !.examined = i]
    ELSE IF ~getParameters(list[i].alg).ok
    THEN [NoVerify EXCEPT !.error = UnknownAlgorithm, !.examined = i]
    ELSE IF differs(p.header, list[i].kid, list[i].alg) THEN scan(list, i + 1, p, now)
    ELSE
    LET signatureParams == getParameters(list[i].alg).parameters.signatureParams
        valid == subtle_verify(signatureParams, list[i].publicKey, p.signature, p.signed)
    IN  [afterCheck(valid, p.claims, now) EXCEPT
            !.examined = i,
            !.log = <<[api |-> "verify", idx |-> i, key |-> list[i].publicKey,
                       data |-> p.signed, ok |-> valid]>>]

\* export async function verify(keys, text, now):
\* [ok, error, claims, examined, log]; keys is [array, list], a bare record
\* being the one element of list with array FALSE.
verify(keys, text, now) ==
    The({IF ~p.ok THEN [NoVerify EXCEPT !.error = p.error]
         ELSE scan(keys.list, 1, p, now) : p \in {parse(text)}})

\* signingInput without the dot between the segments.
signingInput_m(headerEncoded, claimsEncoded) == headerEncoded \o claimsEncoded

\* `${headerEncoded}.${claimsEncoded}` of create
signingInput(headerEncoded, claimsEncoded) == headerEncoded \o <<Dot>> \o claimsEncoded

NoCreate == [ok |-> FALSE, error |-> "", token |-> <<>>, signer |-> 0, log |-> <<>>]

\* export async function create(keys, claims): [ok, error, token, signer, log];
\* signer is the position in keys.list of the record chosen.
\* create, from the signing on: the call of crypto.subtle.sign and the token
sign(signer, key, signatureParams, headerEncoded, claimsEncoded) ==
    The({IF ~signature.ok
         THEN [NoCreate EXCEPT
                  !.error = signature.error, !.signer = signer,
                  !.log = <<[api |-> "sign", idx |-> signer, key |-> key.privateKey,
                             data |-> signingInput(headerEncoded, claimsEncoded),
                             ok |-> FALSE]>>]
         ELSE [ok |-> TRUE, error |-> "",
               token |-> headerEncoded \o <<Dot>> \o claimsEncoded \o <<Dot>>
                         \o encode(signature.bytes),
               signer |-> signer,
               log |-> <<[api |-> "sign", idx |-> signer, key |-> key.privateKey,
                          data |-> signingInput(headerEncoded, claimsEncoded),
                          ok |-> TRUE]>>] :
         signature \in {subtle_sign(signatureParams, key.privateKey,
                                    signingInput(headerEncoded, claimsEncoded))}})

create(keys, claims) ==
    LET private == {i \in 1..Len(keys.list) : keys.list[i].privateKey # 0}
        signer == IF ~keys.array THEN 1
                  ELSE IF private = {} THEN 0 ELSE MinOf(private)
        key == keys.list[signer]
        header == <<[name |-> str_kid, value |-> String(key.kid)],
                    [name |-> str_alg, value |-> String(key.alg)]>>
    IN
    IF keys.array /\ \E i \in 1..Len(keys.list) : keys.list[i].null
    THEN [NoCreate EXCEPT !.error = TypeError]
    ELSE IF signer = 0 THEN [NoCreate EXCEPT !.error = NoSigningKey]
    ELSE IF ~getParameters(key.alg).ok THEN [NoCreate EXCEPT !.error = UnknownAlgorithm]
    ELSE The({sign(signer, key, getParameters(key.alg).parameters.signatureParams,
                   headerEncoded, claimsEncoded) :
              headerEncoded \in {encodeText(stringify(header))},
              claimsEncoded \in {encodeText(stringify(claims))}})

\* async function importPublic(alg, jwk): [ok, error, handle]
importPublic(alg, jwk) ==
    IF ~getParameters(alg).ok
    THEN [ok |-> FALSE, error |-> UnknownAlgorithm, handle |-> 0]
    ELSE subtle_importKey([jwk EXCEPT !.d = FALSE], "verify")

NoImport == [ok |-> FALSE, error |-> "", records |-> <<>>, log |-> <<>>]

\* importJWKS: what the callback of keys.map returns for one entry; an
\* absent alg is the empty text, falsy like undefined.
importEntry(entry) ==
    IF entry.alg = <<>> THEN [ok |-> TRUE, error |-> "", record |-> null]
    ELSE LET publicKey == importPublic(entry.alg, [key |-> entry.key, d |-> entry.d])
         IN  [ok |-> publicKey.ok, error |-> publicKey.error,
              record |-> KeyRecord(entry.alg, entry.kid, 0, publicKey.handle)]

\* export async function importJWKS({ keys }): [ok, error, records, log];
\* Promise.all rejects with the first rejection.
importJWKS(doc) ==
    LET mapped == [i \in 1..Len(doc.keys) |-> importEntry(doc.keys[i])]
        rejected == {i \in 1..Len(mapped) : ~mapped[i].ok}
    IN  IF rejected # {}
        THEN [NoImport EXCEPT !.error = mapped[MinOf(rejected)].error]
        ELSE [NoImport EXCEPT !.ok = TRUE,
                              !.records = [i \in 1..Len(mapped) |-> mapped[i].record]]

\* export async function importJWK(alg, kid, jwk): [ok, error, records, log]
importJWK(alg, kid, jwk) ==
    LET privateKey == IF jwk.d THEN subtle_importKey(jwk, "sign")
                      ELSE [ok |-> TRUE, error |-> "", handle |-> 0]
        publicKey == importPublic(alg, jwk)
    IN  IF ~getParameters(alg).ok THEN [NoImport EXCEPT !.error = UnknownAlgorithm]
        ELSE IF ~privateKey.ok THEN [NoImport EXCEPT !.error = privateKey.error]
        ELSE IF ~publicKey.ok THEN [NoImport EXCEPT !.error = publicKey.error]
        ELSE [NoImport EXCEPT
                 !.ok = TRUE,
                 !.records = <<KeyRecord(alg, kid, privateKey.handle, publicKey.handle)>>]

\* export async function importURLJWKS(url); response is what fetch(url)
\* resolves to: [ok, json]
importURLJWKS(url, response) ==
    LET log == <<[api |-> "fetch", idx |-> 0, key |-> 0, data |-> url.href,
                  ok |-> response.ok]>>
    IN  IF ~response.ok THEN [NoImport EXCEPT !.error = FetchFailed, !.log = log]
        ELSE [importJWKS(response.json) EXCEPT !.log = log]

\* "https://"
str_https == <<104, 116, 116, 112, 115, 58, 47, 47>>
\* "./well-known/jwks.json"
str_wellKnown ==
    <<46, 47, 119, 101, 108, 108, 45, 107, 110, 111, 119, 110, 47,
      106, 119, 107, 115, 46, 106, 115, 111, 110>>

\* export async function importHostJWKS(hostname)
importHostJWKS(hostname, response) ==
    importURLJWKS(URL(str_https \o hostname \o str_wellKnown), response)

NoFraction == [ok |-> FALSE, error |-> "", num |-> 0, den |-> 1]

\* export function expiredFraction(jwt, createdAt, now): [ok, error, num, den],
\* the fraction num / den of milliseconds; createdAt is [given, ms].
fraction(p, createdAt, now) ==
    LET exp == Get(p.claims, str_exp)
        iat == Get(p.claims, str_iat)
        created == IF createdAt.given THEN createdAt.ms ELSE iat.n * MsPerSecond
        issuedAt == IF Truthy(iat) THEN iat.n * MsPerSecond ELSE createdAt.ms
    IN  IF ~p.ok THEN [NoFraction EXCEPT !.error = p.error]
        ELSE IF ~Truthy(exp) THEN [NoFraction EXCEPT !.ok = TRUE]
        ELSE IF ~Truthy(iat) /\ ~createdAt.given
        THEN [NoFraction EXCEPT !.error = MissingTimeReference]
        ELSE [ok |-> TRUE, error |-> "", num |-> now - created,
              den |-> exp.n * MsPerSecond - issuedAt]

expiredFraction(text, createdAt, now) ==
    The({fraction(p, createdAt, now) : p \in {parse(text)}})

---------------------------------------------------------------------------
(* The inputs of the calls.                                                *)

Kids == {<<97>>, <<98>>}
Algs == {ES256, RS256}
KeyPairs == 1..NumKeyPairs
Hostnames == {<<104>>, <<97, 46, 98>>}

JWKs == [key : KeyPairs, d : BOOLEAN]

\* The records importJWK returns.
Records ==
    {importJWK(alg, kid, jwk).records[1] : alg \in Algs, kid \in Kids, jwk \in JWKs}
PublicRecords == {r \in Records : r.privateKey = 0}

\* JWK Sets: an entry's alg is absent, of the registry or unknown to it.
Entries == [alg : Algs \cup {<<>>, HS256}, kid : Kids, key : KeyPairs, d : {FALSE}]

RECURSIVE SeqsUpTo(_, _)
SeqsUpTo(S, n) ==
    IF n = 0 THEN {<<>>}
    ELSE LET shorter == SeqsUpTo(S, n - 1)
         IN  shorter \cup {Append(q, x) : q \in shorter, x \in S}

\* The JWK Sets of at most n entries.
JWKSets(n) == {[keys |-> q] : q \in SeqsUpTo(Entries, n)}

Bare(record) == [array |-> FALSE, list |-> <<record>>]
List(records) == [array |-> TRUE, list |-> records]

\* The records of one issuer, whose key id is "a".
IssuerRecords == {r \in Records : r.kid = <<97>>}

\* One key: a record, bare or as the list the importer returned.
SingleKeyArgs ==
    {Bare(r) : r \in IssuerRecords} \cup {List(<<r>>) : r \in IssuerRecords}

\* Key lists a caller concatenates from what the importers returned.
KeyArgs ==
    {Bare(r) : r \in Records}
    \cup {List(q) : q \in SeqsUpTo(Records \cup {null}, MaxKeys)}

\* A record whose alg the registry does not know.
ForeignRecord == KeyRecord(HS256, <<98>>, 0, 1)

\* The lists of a verifier: public records, the nulls of importJWKS, and a
\* record of another scheme.
TrustedArgs ==
    {Bare(r) : r \in PublicRecords}
    \cup {List(q) : q \in SeqsUpTo(PublicRecords \cup {null, ForeignRecord}, MaxKeys)}

Times == (0 - PreEpoch)..MaxTime

Member(name, values) == {<<>>} \cup {<<[name |-> name, value |-> v]>> : v \in values}

\* Claims objects {sub?, iat?, exp?}
ClaimsObjects ==
    {s \o i \o e : s \in Member(str_sub, {String(<<109, 101>>)}),
                   i \in Member(str_iat, {Number(t) : t \in Times}),
                   e \in Member(str_exp, {Number(t) : t \in Times})}

\* Dates, half a second apart, from before the earliest claim to after the latest
Nows ==
    {s * MsPerSecond + f : s \in (0 - PreEpoch - 1)..(MaxTime + 1), f \in {0, 500}}

\* createdAt: left out, or the Date of the epoch
CreatedAts == {[given |-> FALSE, ms |-> 0], [given |-> TRUE, ms |-> 0]}

\* Texts made of a token: itself, in whitespace, with a fourth segment,
\* without its signature segment, its header segment alone, and with a
\* claims segment that is no base64url.
Texts(token) ==
    LET parts == split(token, Dot)
    IN  IF Len(parts) # 3 THEN {token} ELSE
        {token,
         <<32>> \o token \o <<10>>,
         token \o <<Dot, 120>>,
         parts[1] \o <<Dot>> \o parts[2],
         parts[1],
         parts[1] \o <<Dot, 33, Dot>> \o parts[3]}

\* What fetch answers: a failure, or a success carrying a JWK Set.
Responses(n) ==
    {[ok |-> FALSE, json |-> [keys |-> <<>>]]}
    \cup {[ok |-> TRUE, json |-> d] : d \in JWKSets(n)}

---------------------------------------------------------------------------
(* The calls.  A caller holds the keys and the token of its last successful *)
(* create; it makes one call at a time and takes the result.               *)

NoKeys == [array |-> TRUE, list |-> <<>>]
NoHeld == [keys |-> NoKeys, claims |-> <<>>, jwt |-> <<>>]

NoCall ==
    [op |-> "", keys |-> NoKeys, claims |-> <<>>, text |-> <<>>, now |-> 0,
     createdAt |-> [given |-> FALSE, ms |-> 0], alg |-> <<>>, kid |-> <<>>,
     jwk |-> [key |-> 0, d |-> FALSE], doc |-> [keys |-> <<>>],
     hostname |-> <<>>, response |-> [ok |-> FALSE, json |-> [keys |-> <<>>]]]

NoRet ==
    [ok |-> FALSE, error |-> "", token |-> <<>>, claims |-> <<>>, parsed |-> NoParse,
     examined |-> 0, signer |-> 0, records |-> <<>>, num |-> 0, den |-> 1]

Init ==
    /\ held = NoHeld
    /\ pc = "idle"
    /\ call = NoCall
    /\ ret = NoRet
    /\ platform = <<>>

Create(keys, claims) ==
    /\ pc = "idle"
    /\ held.jwt = <<>>
    /\ \E r \in {create(keys, claims)} :
        /\ call' = [NoCall EXCEPT !.op = "create", !.keys = keys, !.claims = claims]
        /\ ret' = [NoRet EXCEPT !.ok = r.ok, !.error = r.error, !.token = r.token,
                                !.signer = r.signer]
        /\ platform' = r.log
        /\ held' = IF r.ok THEN [keys |-> keys, claims |-> claims, jwt |-> r.token]
                   ELSE held
        /\ pc' = "returned"

Verify(keys, text, now) ==
    /\ pc = "idle"
    /\ held.jwt # <<>>
    /\ \E r \in {verify(keys, text, now)} :
        /\ call' = [NoCall EXCEPT !.op = "verify", !.keys = keys, !.text = text,
                                  !.now = now]
        /\ ret' = [NoRet EXCEPT !.ok = r.ok, !.error = r.error, !.claims = r.claims,
                                !.examined = r.examined]
        /\ platform' = r.log
        /\ pc' = "returned"
        /\ UNCHANGED held

Parse(text) ==
    /\ pc = "idle"
    /\ held.jwt # <<>>
    /\ \E r \in {parse(text)} :
        /\ call' = [NoCall EXCEPT !.op = "parse", !.text = text]
        /\ ret' = [NoRet EXCEPT !.ok = r.ok, !.error = r.error, !.parsed = r]
        /\ platform' = <<>>
        /\ pc' = "returned"
        /\ UNCHANGED held

ExpiredFraction(text, createdAt, now) ==
    /\ pc = "idle"
    /\ held.jwt # <<>>
    /\ \E r \in {expiredFraction(text, createdAt, now)} :
        /\ call' = [NoCall EXCEPT !.op = "expiredFraction", !.text = text,
                                  !.createdAt = createdAt, !.now = now]
        /\ ret' = [NoRet EXCEPT !.ok = r.ok, !.error = r.error, !.num = r.num,
                                !.den = r.den]
        /\ platform' = <<>>
        /\ pc' = "returned"
        /\ UNCHANGED held

ImportJWK(alg, kid, jwk) ==
    /\ pc = "idle"
    /\ \E r \in {importJWK(alg, kid, jwk)} :
        /\ call' = [NoCall EXCEPT !.op = "importJWK", !.alg = alg, !.kid = kid,
                                  !.jwk = jwk]
        /\ ret' = [NoRet EXCEPT !.ok = r.ok, !.error = r.error, !.records = r.records]
        /\ platform' = r.log
        /\ pc' = "returned"
        /\ UNCHANGED held

ImportJWKS(doc) ==
    /\ pc = "idle"
    /\ \E r \in {importJWKS(doc)} :
        /\ call' = [NoCall EXCEPT !.op = "importJWKS", !.doc = doc]
        /\ ret' = [NoRet EXCEPT !.ok = r.ok, !.error = r.error, !.records = r.records]
        /\ platform' = r.log
        /\ pc' = "returned"
        /\ UNCHANGED held

\* response is what the network answers the fetch with.
ImportURLJWKS(url, response) ==
    /\ pc = "idle"
    /\ \E r \in {importURLJWKS(url, response)} :
        /\ call' = [NoCall EXCEPT !.op = "importURLJWKS", !.text = url.href,
                                  !.response = response]
        /\ ret' = [NoRet EXCEPT !.ok = r.ok, !.error = r.error, !.records = r.records]
        /\ platform' = r.log
        /\ pc' = "returned"
        /\ UNCHANGED held

ImportHostJWKS(hostname, response) ==
    /\ pc = "idle"
    /\ \E r \in {importHostJWKS(hostname, response)} :
        /\ call' = [NoCall EXCEPT !.op = "importHostJWKS", !.hostname = hostname,
                                  !.response = response]
        /\ ret' = [NoRet EXCEPT !.ok = r.ok, !.error = r.error, !.records = r.records]
        /\ platform' = r.log
        /\ pc' = "returned"
        /\ UNCHANGED held

\* The caller takes the result.
Return ==
    /\ pc = "returned"
    /\ pc' = "idle"
    /\ call' = NoCall
    /\ ret' = NoRet
    /\ platform' = <<>>
    /\ UNCHANGED held

\* The README's session: one key, bare or as the importer's list, every
\* claims object, every date.
Next ==
    \/ \E keys \in SingleKeyArgs, claims \in ClaimsObjects : Create(keys, claims)
    \/ \E now \in Nows : Verify(held.keys, held.jwt, now)
    \/ Return

Spec == Init /\ [][Next]_vars

\* The codec and the expiry fraction on the texts made of an issued token.
NextCodec ==
    \/ \E keys \in SingleKeyArgs, claims \in ClaimsObjects : Create(keys, claims)
    \/ \E text \in Texts(held.jwt) : Parse(text)
    \/ \E createdAt \in CreatedAts, now \in Nows :
           ExpiredFraction(held.jwt, createdAt, now)
    \/ Return

SpecCodec == Init /\ [][NextCodec]_vars

\* A date after every exp the issued claims take.
Late == (MaxTime + 1) * MsPerSecond

\* The claims of the sessions with key lists: none timed, and expired at Late.
ListClaims ==
    {<<[name |-> str_sub, value |-> String(<<109, 101>>)]>>,
     <<[name |-> str_sub, value |-> String(<<109, 101>>)],
       [name |-> str_exp, value |-> Number(MaxTime)]>>}

\* An issuer with a key list.
NextIssue ==
    \/ \E keys \in KeyArgs, claims \in ListClaims : Create(keys, claims)
    \/ Verify(held.keys, held.jwt, Late)
    \/ Return

SpecIssue == Init /\ [][NextIssue]_vars

\* A verifier with a list of public keys, given a token some key issued.
NextTrust ==
    \/ \E r \in {i \in IssuerRecords : i.alg = ES256}, claims \in ListClaims :
           Create(Bare(r), claims)
    \/ \E keys \in TrustedArgs : Verify(keys, held.jwt, Late)
    \/ Return

SpecTrust == Init /\ [][NextTrust]_vars

\* "https://h/jwks": a URL a caller hands to importURLJWKS
JWKSURLs == {URL(str_https \o h \o <<47, 106, 119, 107, 115>>) : h \in Hostnames}

\* The importers.
NextImport ==
    \/ \E alg \in Algs \cup {HS256}, kid \in Kids, jwk \in JWKs : ImportJWK(alg, kid, jwk)
    \/ /\ pc = "idle"
       /\ \E doc \in JWKSets(MaxEntries) : ImportJWKS(doc)
    \/ /\ pc = "idle"
       /\ \E url \in JWKSURLs, response \in Responses(MaxEntries) :
              ImportURLJWKS(url, response)
    \/ /\ pc = "idle"
       /\ \E hostname \in Hostnames, response \in Responses(MaxEntries) :
              ImportHostJWKS(hostname, response)
    \/ Return

SpecImport == Init /\ [][NextImport]_vars
---------------------------------------------------------------------------
(* The properties.                                                         *)

Returned(op) == pc = "returned" /\ call.op = op

\* A record carries a private handle.
PrivateCapable(record) == ~record.null /\ record.privateKey # 0

\* now lies in [iat, exp) of the claims, an absent claim setting no limit.
WithinWindow(claims, now) ==
    /\ Get(claims, str_iat).t = "n" => Get(claims, str_iat).n * MsPerSecond <= now
    /\ Get(claims, str_exp).t = "n" => now < Get(claims, str_exp).n * MsPerSecond

\* The header {kid, alg} of a record.
HeaderOf(record) ==
    <<[name |-> str_kid, value |-> String(record.kid)],
      [name |-> str_alg, value |-> String(record.alg)]>>

\* The candidate's (kid, alg) equals the header's.
Matches(record, header) ==
    /\ ~record.null
    /\ Get(header, str_kid) = String(record.kid)
    /\ Get(header, str_alg) = String(record.alg)

\* The first candidate in list order that matches the header; 0 if none does.
FirstMatch(list, header) ==
    LET matching == {i \in 1..Len(list) : Matches(list[i], header)}
    IN  IF matching = {} THEN 0 ELSE MinOf(matching)

\* The cryptographic checks verify ran, as the platform saw them.
Checks == {i \in 1..Len(platform) : platform[i].api = "verify"}

\* C1: create with a key record that carries a private handle, bare or as a
\* one-element list, returns a token that parses into the header {kid, alg}
\* of the record and a signed string equal to the input that was signed; and
\* verify with the same key returns claims equal to those given to create
\* whenever now lies within [iat, exp) (an absent claim setting no limit).
C1_RoundTrip ==
    /\ (Returned("create") /\ PrivateCapable(call.keys.list[1])) =>
          /\ ret.ok
          /\ Len(platform) = 1 /\ platform[1].api = "sign"
          /\ LET p == parse(ret.token)
             IN  /\ p.ok
                 /\ p.header = HeaderOf(call.keys.list[1])
                 /\ p.claims = call.claims
                 /\ p.signed = platform[1].data
    /\ (Returned("verify") /\ call.keys = held.keys /\ call.text = held.jwt
            /\ WithinWindow(held.claims, call.now)) =>
          /\ ret.ok
          /\ ret.claims = held.claims

\* C1 witness: verify returned the claims {sub, iat, exp} of a token at
\* now = iat, the key given as a list.
C1_Witness ==
    /\ Returned("verify") /\ call.keys = held.keys /\ call.keys.array
    /\ Len(held.claims) = 3
    /\ call.now = Get(held.claims, str_iat).n * MsPerSecond
    /\ WithinWindow(held.claims, call.now)
    /\ ret.ok /\ ret.claims = held.claims

\* C2: when the first candidate in list order whose (kid, alg) equals the
\* header's has its cryptographic check report invalid, verify fails with
\* InvalidSignature, returns no claims, and examines no later candidate.
C2_InvalidIsFinal ==
    Returned("verify") =>
        LET first == FirstMatch(call.keys.list, parse(call.text).header)
        IN  (\E i \in Checks : platform[i].idx = first /\ ~platform[i].ok) =>
                /\ ~ret.ok
                /\ ret.error = InvalidSignature
                /\ ret.claims = <<>>
                /\ ret.examined = first
                /\ Cardinality(Checks) = 1

\* C2 witness: the first matching candidate failed the check of a token that
\* is expired at the date of the call, and a later candidate with the same
\* (kid, alg) holds the key that validates the signature.
C2_Witness ==
    /\ Returned("verify")
    /\ LET p == parse(call.text)
           first == FirstMatch(call.keys.list, p.header)
       IN  /\ \E i \in Checks : platform[i].idx = first /\ ~platform[i].ok
           /\ Get(p.claims, str_exp).t = "n"
           /\ Get(p.claims, str_exp).n * MsPerSecond < call.now
           /\ \E j \in (first + 1)..Len(call.keys.list) :
                  /\ Matches(call.keys.list[j], p.header)
                  /\ subtle_verify(algorithms[call.keys.list[j].alg].signatureParams,
                                   call.keys.list[j].publicKey, p.signature, p.signed)
    /\ ret.error = InvalidSignature

\* The signature of the token was found valid under the matching key.
SignatureValid == \E i \in Checks : platform[i].ok

\* C3: for a token whose signature is valid under the matching key and
\* whose claims contain exp, verify fails with Expired if and only if
\* now >= exp.
C3_ExpiredIffNowAtOrAfterExp ==
    (Returned("verify") /\ SignatureValid
        /\ Get(parse(call.text).claims, str_exp).t = "n") =>
        (ret.error = Expired
            <=> call.now >= Get(parse(call.text).claims, str_exp).n * MsPerSecond)

\* C4: every candidate whose (kid, alg) differs from the header's is skipped
\* without an error and without its cryptographic check; when some candidate
\* matches, verify reaches the first that does, checks it alone, and the
\* call succeeds if its check passes and the token's dates allow.
C4_NonMatchingSkipped ==
    (Returned("verify") /\ parse(call.text).ok) =>
        LET p == parse(call.text)
            first == FirstMatch(call.keys.list, p.header)
        IN  first > 0 =>
                /\ ret.examined = first
                /\ Cardinality(Checks) = 1
                /\ \A i \in Checks : platform[i].idx = first
                /\ ((\A i \in Checks : platform[i].ok) /\ WithinWindow(p.claims, call.now))
                       => ret.ok /\ ret.claims = p.claims

\* C5: for a token whose signature is valid under the matching key, that is
\* not expired and whose claims contain iat, verify fails with NotYetValid
\* if and only if iat > now.
C5_NotYetValidIffIatAfterNow ==
    (Returned("verify") /\ SignatureValid
        /\ Get(parse(call.text).claims, str_iat).t = "n"
        /\ (Get(parse(call.text).claims, str_exp).t = "n"
                => call.now < Get(parse(call.text).claims, str_exp).n * MsPerSecond)) =>
        (ret.error = NotYetValid
            <=> Get(parse(call.text).claims, str_iat).n * MsPerSecond > call.now)

\* C6: parse raises an error and returns no parsed token for every text whose
\* trimmed form has fewer or more than three dot-separated segments.
C6_ThreeSegments ==
    (Returned("parse") /\ Len(split(trim(call.text), Dot)) # 3) =>
        /\ ~ret.ok
        /\ ret.parsed.header = <<>> /\ ret.parsed.claims = <<>>

\* The entries of a JWK Set that have an alg field, in input order.
RECURSIVE WithAlg(_)
WithAlg(entries) ==
    IF entries = <<>> THEN <<>>
    ELSE IF Head(entries).alg = <<>> THEN WithAlg(Tail(entries))
    ELSE <<Head(entries)>> \o WithAlg(Tail(entries))

\* C7: importJWKS returns one key record per entry that has an alg field, in
\* input order, and nothing for the others: no null placeholders.
C7_NoNullPlaceholders ==
    (Returned("importJWKS") /\ ret.ok) =>
        LET kept == WithAlg(call.doc.keys)
        IN  /\ Len(ret.records) = Len(kept)
            /\ \A i \in 1..Len(ret.records) :
                   /\ ~ret.records[i].null
                   /\ ret.records[i].alg = kept[i].alg
                   /\ ret.records[i].kid = kept[i].kid
                   /\ ret.records[i].publicKey = kept[i].key

\* C8: create fails with NoSigningKey and returns no token when no record it
\* is given carries a private handle, given a list or a bare record; given a
\* list with such a record, it signs with the first of them.
C8_NoSigningKey ==
    Returned("create") =>
        LET private == {i \in 1..Len(call.keys.list) :
                            PrivateCapable(call.keys.list[i])}
        IN  /\ private = {} =>
                   /\ ~ret.ok
                   /\ ret.error = NoSigningKey
                   /\ ret.token = <<>>
            /\ (private # {} /\ call.keys.array) =>
                   /\ ret.signer = MinOf(private)
                   /\ \A i \in 1..Len(platform) :
                          platform[i].api = "sign"
                              => platform[i].key = call.keys.list[MinOf(private)].privateKey

\* C9: without createdAt, on a token with iat < exp, expiredFraction is
\* strictly increasing in now, 0 at now = iat and 1 at now = exp.
C9_FractionOfWindow ==
    LET claims == parse(call.text).claims
        iat == Get(claims, str_iat)
        exp == Get(claims, str_exp)
    IN  (Returned("expiredFraction") /\ ~call.createdAt.given
            /\ iat.t = "n" /\ exp.t = "n" /\ iat.n < exp.n) =>
            /\ ret.ok /\ ret.den > 0
            /\ call.now = iat.n * MsPerSecond => ret.num = 0
            /\ call.now = exp.n * MsPerSecond => ret.num = ret.den
            /\ \A earlier \in {n \in Nows : n < call.now} :
                   LET f == expiredFraction(call.text, call.createdAt, earlier)
                   IN  f.ok /\ f.den > 0 /\ f.num * ret.den < ret.num * f.den

\* "/.well-known/jwks.json"
str_wellKnownPath ==
    <<47, 46, 119, 101, 108, 108, 45, 107, 110, 111, 119, 110, 47,
      106, 119, 107, 115, 46, 106, 115, 111, 110>>

\* C10: importHostJWKS(h) requests https://h/.well-known/jwks.json through
\* importURLJWKS and returns that call's result.
C10_WellKnownURL ==
    Returned("importHostJWKS") =>
        /\ Len(platform) = 1 /\ platform[1].api = "fetch"
        /\ URL(platform[1].data).protocol = <<104, 116, 116, 112, 115, 58>>
        /\ URL(platform[1].data).host = call.hostname
        /\ URL(platform[1].data).pathname = str_wellKnownPath
        /\ LET r == importURLJWKS(URL(platform[1].data), call.response)
           IN  ret.ok = r.ok /\ ret.error = r.error /\ ret.records = r.records
====
